---- MODULE Spec2Model ----
(***************************************************************************)
(* Smart-Queue-Manager: the queue / statistics / history core.             *)
(*                                                                         *)
(* Two stores are written by the request handlers of app.py:               *)
(*   - the relational store (models.py): businesses, queue_items,          *)
(*     queue_statistics, queue_history;                                    *)
(*   - the key-value store (replit_db.py, local_storage) through           *)
(*     QueueManager (queue_manager.py): items under a key prefix, one      *)
(*     statistics key per prefix, one global history key.                  *)
(*                                                                         *)
(* Time is a logical clock `now` (datetime.now()); a wait time is a        *)
(* difference of clock readings.  avg_wait_time is kept as an exact        *)
(* fraction [num, den] in lowest terms.  uuid4 identifiers are the         *)
(* successive values of the counter nextId.                                *)
(***************************************************************************)
EXTENDS Integers, Sequences, FiniteSets, TLC

\* ------------------------------------------------------------------ bounds
MaxTime == 1
MaxJoins == 2
MaxHistory == 3
MaxRequests == 3

\* ------------------------------------------------------- program constants
DefaultPriority == 3
HistoryCap == 100
HistoryKeep == 99
HistoryLimit == 20
StatsPseudoId == 0
NoTime == 0 - 1
BadTimestamp == MaxTime + 2
GlobalPrefix == "queue_item_"
NoBusiness == "none"
UnknownBusiness == "no-such-business"
BusinessIds == {"cafe-central", "tech-store"}
Prefixes == BusinessIds \cup {GlobalPrefix}

SeedQueueSize(b) == IF b = "cafe-central" THEN 4 ELSE 2

\* ------------------------------------------------------------- arithmetic
Max(a, b) == IF a >= b THEN a ELSE b

RECURSIVE GCD(_, _)
GCD(a, b) == IF b = 0 THEN a ELSE GCD(b, a % b)

Rat(n, d) == IF n = 0 THEN [num |-> 0, den |-> 1]
             ELSE LET g == GCD(n, d) IN [num |-> n \div g, den |-> d \div g]

RatZero == Rat(0, 1)

\* new_avg = (current_avg * (total_served - 1) + wait_time) / total_served
WeightedAverage(avg, total_served, wait_time) ==
    Rat(avg.num * (total_served - 1) + wait_time * avg.den, avg.den * total_served)

\* ------------------------------------------------------------ the records
ZeroStats == [total_served |-> 0, avg_wait_time |-> RatZero,
              peak_queue_length |-> 0, current_queue_length |-> 0]
NoStats == [absent |-> TRUE]
NoResp == [op |-> "none", code |-> 0, id |-> 0, position |-> 0]
Failure(code) == [op |-> "error", code |-> code, id |-> 0, position |-> 0]
EmptyMap == [x \in {} |-> NoStats]

\* ----------------------------------------------------------------- inputs
MissingName == "<no name key>"
Names == <<"Alice", "Bob", "Carol", "Dave">>
Phones == <<"555-0001", "555-0002", "555-0003", "555-0004">>

\* the requests to join that are handled concurrently, one thread each
Requests == 1..MaxRequests

VARIABLES now, nextId, businesses, queue_items, statistics, history,
          kvItems, kvStats, kvHistory, resp, requests

vars == <<now, nextId, businesses, queue_items, statistics, history,
          kvItems, kvStats, kvHistory, resp, requests>>

\* a request that has not arrived: no session, no response
NoRequest == [pc |-> "idle", new_item |-> NoStats, stats |-> NoStats, position |-> 0]

sqlVars == <<businesses, queue_items, statistics, history>>
kvVars == <<kvItems, kvStats, kvHistory>>

\* app.py initialize_businesses (relational part) and QueueManager.__init__
Init ==
    /\ now = 0
    /\ nextId = 0
    /\ businesses = [b \in BusinessIds |-> [queue_size |-> SeedQueueSize(b)]]
    /\ queue_items = EmptyMap
    /\ statistics = [b \in BusinessIds |->
                        [total_served |-> 0, avg_wait_time |-> RatZero,
                         peak_queue_length |-> 0,
                         current_queue_length |-> SeedQueueSize(b)]]
    /\ history = <<>>
    /\ kvItems = EmptyMap
    /\ kvStats = [p \in Prefixes |-> IF p = GlobalPrefix THEN ZeroStats ELSE NoStats]
    /\ kvHistory = <<>>
    /\ resp = NoResp
    /\ requests = [r \in Requests |-> NoRequest]

\* ------------------------------------------------- QueueManager (key-value)
\* ReplitDB.get_all(prefix): the keys that start with the prefix.  A business
\* prefix "<id>_" also matches that business's statistics key "<id>_stats";
\* the default prefix "queue_item_" does not match "queue_statistics".
ScanIncludesStats(prefix) == prefix # GlobalPrefix

\* the statistics value as get_all_items sees it: no status, no priority
\* (-> 0), no timestamp (-> ''), id = key.replace(prefix, '') = 'stats'
StatsPseudoItem(prefix) ==
    [id |-> StatsPseudoId, prefix |-> prefix, name |-> "", phone |-> "",
     priority |-> 0, timestamp |-> NoTime, status |-> "", completed_at |-> NoTime]

KvScan(items, stats, prefix) ==
    {items[i] : i \in {j \in DOMAIN items : items[j].prefix = prefix}}
    \cup (IF ScanIncludesStats(prefix) /\ stats[prefix] # NoStats
          THEN {StatsPseudoItem(prefix)} ELSE {})

\* key=lambda x: (-priority, timestamp): priority descending, timestamp ascending
SortKeyLess(x, y) ==
    \/ x.priority > y.priority
    \/ x.priority = y.priority /\ x.timestamp < y.timestamp

\* sorted(...) is stable: equal keys keep the order in which they were stored
RECURSIVE SortItems(_)
SortItems(S) ==
    IF S = {} THEN <<>>
    ELSE LET first == CHOOSE x \in S : \A y \in S \ {x} :
                          \/ SortKeyLess(x, y)
                          \/ ~SortKeyLess(y, x) /\ x.id < y.id
         IN <<first>> \o SortItems(S \ {first})

\* QueueManager.get_all_items
GetAllItems(items, stats, prefix) ==
    SortItems({v \in KvScan(items, stats, prefix) : v.status # "completed"})

\* ReplitDB with REPLIT_DB_URL set: a call that fails logs the error and
\* returns False (set, delete), the default (get) or {} (get_all); no caller
\* in QueueManager looks at what set or delete returned.  A fault names the
\* call of an operation that fails; "none": every call succeeds.
NoFault == "none"

\* QueueManager.add_item: the store after the call
AddItemFault(items, stats, id, item, prefix, fault) ==
    LET items1 == IF fault = "set_item" THEN items ELSE (id :> item) @@ items
        st0 == IF fault = "get_stats" \/ stats[prefix] = NoStats
               THEN ZeroStats ELSE stats[prefix]
        current_length == IF fault = "scan" THEN 0
                          ELSE Len(GetAllItems(items1, stats, prefix))
        st1 == [st0 EXCEPT !.current_queue_length = current_length,
                           !.peak_queue_length =
                               IF current_length > @ THEN current_length ELSE @]
    IN [items |-> items1,
        stats |-> IF fault = "set_stats" THEN stats
                  ELSE [stats EXCEPT ![prefix] = st1]]

AddItem(items, stats, id, item, prefix) ==
    AddItemFault(items, stats, id, item, prefix, NoFault)

KvItem(id, prefix, name, phone, priority) ==
    [id |-> id, prefix |-> prefix, name |-> name, phone |-> phone,
     priority |-> priority, timestamp |-> now, status |-> "waiting",
     completed_at |-> NoTime]

\* ------------------------------------------------------------ notifications
\* notifications.send_sms_notification: the message goes out ("sent"), the
\* function returns False (no credentials, Twilio error: "failed"), or the
\* handler's try block raises (import or lookup error: "raised")
SmsOutcomes == {"sent", "failed", "raised"}

\* an exception of the notification reaching the client as a server error
AfterSmsPropagated(result, sms) == IF sms = "raised" THEN Failure(500) ELSE result

\* the handlers' "try: send_...(...) except Exception as e: logging.error(...)":
\* the returned flag is dropped and an exception is logged; the handler goes
\* on to return the result it had
AfterSms(result, sms) ==
    CASE sms = "raised" -> result
      [] OTHER -> result

\* ------------------------------------------------------- relational store
QueueItem(id, b, name, phone, priority) ==
    [id |-> id, business_id |-> b, name |-> name, phone |-> phone,
     priority |-> priority, status |-> "waiting", timestamp |-> now,
     completed_at |-> NoTime]

\* the statistics update of join_queue / add_to_queue
JoinStats(st) ==
    IF st # NoStats
    THEN LET cur == st.current_queue_length + 1
         IN [st EXCEPT !.current_queue_length = cur,
                       !.peak_queue_length = IF cur > @ THEN cur ELSE @]
    ELSE [ZeroStats EXCEPT !.peak_queue_length = 1, !.current_queue_length = 1]

\* app.py join_queue (POST /queue/<business_id>/join)
JoinFormSms(b, name, phone, sms) ==
    /\ IF b \notin BusinessIds
       THEN /\ resp' = Failure(404)
            /\ UNCHANGED <<nextId, sqlVars, kvVars>>
       ELSE IF name = "" \/ phone = ""
       THEN /\ resp' = Failure(400)
            /\ UNCHANGED <<nextId, sqlVars, kvVars>>
       ELSE LET item_id == nextId + 1
                stats == JoinStats(statistics[b])
                kv == AddItem(kvItems, kvStats, nextId + 2,
                              KvItem(nextId + 2, b, name, phone, DefaultPriority), b)
                position == stats.current_queue_length
            IN /\ nextId + 2 <= 2 * MaxJoins
               /\ nextId' = nextId + 2
               /\ queue_items' = (item_id :>
                       QueueItem(item_id, b, name, phone, DefaultPriority)) @@ queue_items
               /\ statistics' = [statistics EXCEPT ![b] = stats]
               /\ businesses' = [businesses EXCEPT
                                   ![b].queue_size = stats.current_queue_length]
               /\ kvItems' = kv.items
               /\ kvStats' = kv.stats
               /\ resp' = AfterSms([op |-> "join_queue", code |-> 200, id |-> item_id,
                                     position |-> position], sms)
               /\ UNCHANGED <<history, kvHistory>>
    /\ UNCHANGED <<now, requests>>

\* the handler when the confirmation goes out
JoinForm(b, name, phone) == JoinFormSms(b, name, phone, "sent")

\* app.py add_to_queue (POST /api/queue)
JoinApiOn(b, name, phone, priority, sms, fault) ==
    /\ IF name = MissingName
       THEN /\ resp' = Failure(400)
            /\ UNCHANGED <<nextId, sqlVars, kvVars>>
       ELSE IF b = NoBusiness
       THEN LET item_id == nextId + 1
                kv == AddItemFault(kvItems, kvStats, item_id,
                              KvItem(item_id, GlobalPrefix, name, phone, priority),
                              GlobalPrefix, fault)
            IN /\ nextId + 1 <= MaxJoins
               /\ nextId' = nextId + 1
               /\ kvItems' = kv.items
               /\ kvStats' = kv.stats
               /\ resp' = [NoResp EXCEPT !.op = "add_to_queue", !.code = 201,
                                         !.id = item_id]
               /\ UNCHANGED <<sqlVars, kvHistory>>
       ELSE IF b \notin BusinessIds
       THEN /\ resp' = Failure(404)
            /\ UNCHANGED <<nextId, sqlVars, kvVars>>
       ELSE LET item_id == nextId + 1
                stats == JoinStats(statistics[b])
                kv == AddItemFault(kvItems, kvStats, nextId + 2,
                              KvItem(nextId + 2, b, name, phone, priority), b, fault)
                position == stats.current_queue_length
            IN /\ nextId + 2 <= 2 * MaxJoins
               /\ nextId' = nextId + 2
               /\ queue_items' = (item_id :>
                       QueueItem(item_id, b, name, phone, priority)) @@ queue_items
               /\ statistics' = [statistics EXCEPT ![b] = stats]
               /\ businesses' = [businesses EXCEPT
                                   ![b].queue_size = stats.current_queue_length]
               /\ kvItems' = kv.items
               /\ kvStats' = kv.stats
               \* the position goes out in the confirmation SMS, sent when a
               \* phone number was given
               /\ resp' = LET result == [op |-> "add_to_queue", code |-> 201,
                                         id |-> item_id, position |-> 0]
                           IN IF phone # ""
                              THEN AfterSms([result EXCEPT !.position = position], sms)
                              ELSE result
               /\ UNCHANGED <<history, kvHistory>>
    /\ UNCHANGED <<now, requests>>

JoinApiSms(b, name, phone, priority, sms) ==
    JoinApiOn(b, name, phone, priority, sms, NoFault)

JoinApi(b, name, phone, priority) == JoinApiSms(b, name, phone, priority, "sent")

\* ------------------------------------------- QueueManager, the mutations
\* the key f"{self.queue_prefix}{item_id}": only items stored under the
\* default prefix are found by update_item, remove_item and complete_item
KvFound(items, id) == id \in DOMAIN items /\ items[id].prefix = GlobalPrefix

\* datetime.fromisoformat(item['timestamp']) succeeds
IsIsoTime(t) == t \in 0..MaxTime

\* "Keep only the last 100 items in history"
TrimHistory(h) ==
    IF Len(h) > HistoryCap THEN SubSeq(h, Len(h) - HistoryKeep + 1, Len(h)) ELSE h

KvHistoryItem(item, wait_time) ==
    [id |-> item.id, name |-> item.name, wait_time |-> wait_time,
     timestamp |-> item.timestamp, completed_at |-> item.completed_at,
     is_reset_marker |-> FALSE]

KvResetMarker ==
    [id |-> 0, name |-> "Queue Reset", wait_time |-> 0, timestamp |-> now,
     completed_at |-> NoTime, is_reset_marker |-> TRUE]

\* the average of QueueManager.complete_item
KvNewAverage(current_avg, total_served, wait_time) ==
    IF total_served > 1 THEN WeightedAverage(current_avg, total_served, wait_time)
    ELSE Rat(wait_time, 1)

\* complete_item without its "if not item: return False": an unknown
\* identifier is counted as served
KvCompleteItemUnchecked(items, stats, hist, id, fault) ==
    [ok |-> FALSE, items |-> items,
     stats |-> [stats EXCEPT ![GlobalPrefix].total_served = @ + 1],
     history |-> hist]

\* QueueManager.complete_item: [ok, items, stats, history] after the call
KvCompleteItemFault(items, stats, hist, id, fault) ==
    IF ~KvFound(items, id) \/ fault = "get_item"
    THEN [ok |-> FALSE, items |-> items, stats |-> stats, history |-> hist]
    ELSE LET item == [items[id] EXCEPT !.status = "completed", !.completed_at = now]
             items1 == IF fault = "set_item" THEN items
                       ELSE [items EXCEPT ![id] = item]
         IN IF ~IsIsoTime(item.timestamp)
            THEN \* the except branch: the error is logged, True is returned
                 [ok |-> TRUE, items |-> items1, stats |-> stats, history |-> hist]
            ELSE LET wait_time == now - item.timestamp
                     hist0 == IF fault = "get_history" THEN <<>> ELSE hist
                     st0 == IF fault = "get_stats" THEN ZeroStats
                            ELSE stats[GlobalPrefix]
                     total_served == st0.total_served + 1
                     st1 == [st0 EXCEPT
                               !.total_served = total_served,
                               !.current_queue_length =
                                   IF fault = "scan" THEN 0
                                   ELSE Len(GetAllItems(items1, stats, GlobalPrefix)),
                               !.avg_wait_time =
                                   KvNewAverage(@, total_served, wait_time)]
                 IN [ok |-> TRUE, items |-> items1,
                     stats |-> IF fault = "set_stats" THEN stats
                               ELSE [stats EXCEPT ![GlobalPrefix] = st1],
                     history |-> IF fault = "set_history" THEN hist
                                 ELSE Append(TrimHistory(hist0),
                                             KvHistoryItem(item, wait_time))]

KvCompleteItem(items, stats, hist, id) ==
    KvCompleteItemFault(items, stats, hist, id, NoFault)

Without(items, id) == [i \in DOMAIN items \ {id} |-> items[i]]

\* QueueManager.remove_item
KvRemoveItemFault(items, stats, id, fault) ==
    IF ~KvFound(items, id) \/ fault = "get_item"
    THEN [ok |-> FALSE, items |-> items, stats |-> stats]
    ELSE LET items1 == IF fault = "delete" THEN items ELSE Without(items, id)
             \* stats = {} when the read fails: only the length is written
             st0 == IF fault = "get_stats" THEN ZeroStats ELSE stats[GlobalPrefix]
             st1 == [st0 EXCEPT !.current_queue_length =
                        IF fault = "scan" THEN 0
                        ELSE Len(GetAllItems(items1, stats, GlobalPrefix))]
         IN [ok |-> TRUE, items |-> items1,
             stats |-> IF fault = "set_stats" THEN stats
                       ELSE [stats EXCEPT ![GlobalPrefix] = st1]]

KvRemoveItem(items, stats, id) == KvRemoveItemFault(items, stats, id, NoFault)

\* QueueManager.reset_queue
KvResetQueueFault(items, stats, hist, fault) ==
    [items |-> IF fault \in {"scan", "delete"} THEN items
               ELSE [i \in {j \in DOMAIN items : items[j].prefix # GlobalPrefix}
                        |-> items[i]],
     stats |-> IF fault = "set_stats" THEN stats
               ELSE [stats EXCEPT ![GlobalPrefix] = ZeroStats],
     history |-> IF fault = "set_history" THEN hist
                 ELSE Append(IF fault = "get_history" THEN <<>> ELSE hist,
                             KvResetMarker)]

KvResetQueue(items, stats, hist) == KvResetQueueFault(items, stats, hist, NoFault)

\* sorted(history, key=lambda x: x.get('completed_at', ''), reverse=True):
\* latest completed_at first, a record without the key (NoTime) last; the
\* sort is stable, records with equal keys keep the order of the log
RECURSIVE SortedByCompletedAt(_, _)
SortedByCompletedAt(h, I) ==
    IF I = {} THEN <<>>
    ELSE LET first == CHOOSE i \in I : \A j \in I \ {i} :
                          \/ h[i].completed_at > h[j].completed_at
                          \/ h[i].completed_at = h[j].completed_at /\ i < j
         IN <<h[first]>> \o SortedByCompletedAt(h, I \ {first})

\* QueueManager.get_history(limit)
GetHistory(h, limit) ==
    LET sorted == SortedByCompletedAt(h, DOMAIN h)
    IN SubSeq(sorted, 1, IF Len(sorted) < limit THEN Len(sorted) ELSE limit)

\* QueueManager.get_statistics(queue_prefix)['total_served']
KvTotalServed(stats, prefix) ==
    IF stats[prefix] = NoStats THEN 0 ELSE stats[prefix].total_served

SetField(item, field, value) ==
    CASE field = "priority" -> [item EXCEPT !.priority = value]
      [] field = "timestamp" -> [item EXCEPT !.timestamp = value]
      [] field = "status" -> [item EXCEPT !.status = value]
      [] OTHER -> [item EXCEPT !.name = value]

Refused == Failure(403)

\* app.py update_queue_item (PUT /api/queue/<item_id>) -> QueueManager.update_item
UpdateItem(id, field, value, isAdmin) ==
    /\ IF ~isAdmin
       THEN /\ resp' = Refused
            /\ UNCHANGED kvItems
       ELSE IF ~KvFound(kvItems, id)
       THEN /\ resp' = Failure(404)
            /\ UNCHANGED kvItems
       ELSE /\ kvItems' = [kvItems EXCEPT ![id] = SetField(@, field, value)]
            /\ resp' = [NoResp EXCEPT !.op = "update_item", !.code = 200, !.id = id]
    /\ UNCHANGED <<now, nextId, sqlVars, kvStats, kvHistory, requests>>

\* remove_from_queue without the test of session.get('admin')
RemoveItemUnguarded(id, isAdmin, fault) ==
    /\ LET r == KvRemoveItemFault(kvItems, kvStats, id, fault)
       IN /\ kvItems' = r.items
          /\ kvStats' = r.stats
          /\ resp' = IF r.ok
                     THEN [NoResp EXCEPT !.op = "remove_item", !.code = 200,
                                         !.id = id]
                     ELSE Failure(404)
    /\ UNCHANGED <<now, nextId, sqlVars, kvHistory, requests>>

\* app.py remove_from_queue (DELETE /api/queue/<item_id>)
RemoveItemOn(id, isAdmin, fault) ==
    /\ IF ~isAdmin
       THEN /\ resp' = Refused
            /\ UNCHANGED <<kvItems, kvStats>>
       ELSE LET r == KvRemoveItemFault(kvItems, kvStats, id, fault)
            IN /\ kvItems' = r.items
               /\ kvStats' = r.stats
               /\ resp' = IF r.ok
                          THEN [NoResp EXCEPT !.op = "remove_item", !.code = 200,
                                              !.id = id]
                          ELSE Failure(404)
    /\ UNCHANGED <<now, nextId, sqlVars, kvHistory, requests>>

RemoveItem(id, isAdmin) == RemoveItemOn(id, isAdmin, NoFault)

\* ------------------------------------------------- complete (relational)
\* the average of app.py complete_queue_item
SqlNewAverage(current_avg, total_served, wait_time) ==
    IF current_avg.num = 0 THEN Rat(wait_time, 1)
    ELSE WeightedAverage(current_avg, total_served, wait_time)

\* the statistics update without max(0, ...)
CompleteStatsUnclamped(st, wait_time) ==
    IF st = NoStats THEN st
    ELSE LET total_served == st.total_served + 1
         IN [st EXCEPT
               !.current_queue_length = @ - 1,
               !.total_served = total_served,
               !.avg_wait_time = SqlNewAverage(@, total_served, wait_time)]

CompleteStats(st, wait_time) ==
    IF st = NoStats THEN st
    ELSE LET total_served == st.total_served + 1
         IN [st EXCEPT
               !.current_queue_length = Max(0, @ - 1),
               !.total_served = total_served,
               !.avg_wait_time = SqlNewAverage(@, total_served, wait_time)]

HistoryItem(item, wait_time) ==
    [item_id |-> item.id, business_id |-> item.business_id, name |-> item.name,
     wait_time |-> wait_time, timestamp |-> item.timestamp,
     completed_at |-> now, is_reset_marker |-> FALSE]

\* the marker written without is_reset_marker=True (the column default)
ResetMarkerUnflagged(b) ==
    [item_id |-> 0, business_id |-> b, name |-> "Queue Reset", wait_time |-> 0,
     timestamp |-> now, completed_at |-> now, is_reset_marker |-> FALSE]

ResetMarker(b) ==
    [item_id |-> 0, business_id |-> b, name |-> "Queue Reset", wait_time |-> 0,
     timestamp |-> now, completed_at |-> now, is_reset_marker |-> TRUE]

\* the records logged since the start (the records a long-running default
\* queue starts with carry negative identifiers)
Logged ==
    Len(history) + Cardinality({i \in DOMAIN kvHistory : kvHistory[i].id >= 0})

\* app.py complete_queue_item (POST /api/queue/<item_id>/complete)
CompleteItemOn(id, isAdmin, sms, fault) ==
    /\ IF ~isAdmin
       THEN /\ resp' = Refused
            /\ UNCHANGED <<sqlVars, kvVars>>
       ELSE IF id \in DOMAIN queue_items
       THEN LET queue_item == queue_items[id]
                business_id == queue_item.business_id
                wait_time_minutes == now - queue_item.timestamp
                stats == CompleteStats(statistics[business_id], wait_time_minutes)
                kv == KvCompleteItemFault(kvItems, kvStats, kvHistory, id, fault)
            IN /\ Logged < MaxHistory
               /\ queue_items' = [queue_items EXCEPT
                                    ![id].status = "completed",
                                    ![id].completed_at = now]
               /\ history' = Append(history, HistoryItem(queue_item, wait_time_minutes))
               /\ statistics' = [statistics EXCEPT ![business_id] = stats]
               /\ businesses' = IF stats = NoStats THEN businesses
                                ELSE [businesses EXCEPT ![business_id].queue_size =
                                         stats.current_queue_length]
               /\ kvItems' = kv.items
               /\ kvStats' = kv.stats
               /\ kvHistory' = kv.history
               /\ resp' = LET result == [NoResp EXCEPT !.op = "complete_item",
                                                        !.code = 200, !.id = id]
                           IN IF queue_item.phone # "" THEN AfterSms(result, sms)
                              ELSE result
       ELSE LET kv == KvCompleteItemFault(kvItems, kvStats, kvHistory, id, fault)
            IN /\ kv.ok => Logged < MaxHistory
               /\ kvItems' = kv.items
               /\ kvStats' = kv.stats
               /\ kvHistory' = kv.history
               /\ resp' = IF kv.ok
                          THEN [NoResp EXCEPT !.op = "complete_item", !.code = 200,
                                              !.id = id]
                          ELSE Failure(404)
               /\ UNCHANGED sqlVars
    /\ UNCHANGED <<now, nextId, requests>>

CompleteItemSms(id, isAdmin, sms) == CompleteItemOn(id, isAdmin, sms, NoFault)

CompleteItem(id, isAdmin) == CompleteItemSms(id, isAdmin, "sent")

\* ------------------------------------------------------------------ reset
\* the business reset without filter_by(business_id=...) on the entries: the
\* waiting entries of every business are completed
ResetBusinessUnscoped(b, reset_stats, isAdmin) ==
    /\ isAdmin
    /\ b \in BusinessIds
    /\ Logged < MaxHistory
    /\ queue_items' =
         [i \in DOMAIN queue_items |->
            IF queue_items[i].status = "waiting"
            THEN [queue_items[i] EXCEPT !.status = "completed", !.completed_at = now]
            ELSE queue_items[i]]
    /\ history' = Append(history, ResetMarker(b))
    /\ statistics' = [statistics EXCEPT ![b].current_queue_length = 0]
    /\ businesses' = [businesses EXCEPT ![b].queue_size = 0]
    /\ resp' = [NoResp EXCEPT !.op = "reset_queue", !.code = 200]
    /\ UNCHANGED <<now, nextId, requests, kvVars>>

\* the business reset without "business.queue_size = 0"
ResetBusinessKeepsSize(b, reset_stats, isAdmin) ==
    /\ isAdmin
    /\ b \in BusinessIds
    /\ Logged < MaxHistory
    /\ queue_items' =
         [i \in DOMAIN queue_items |->
            IF queue_items[i].business_id = b /\ queue_items[i].status = "waiting"
            THEN [queue_items[i] EXCEPT !.status = "completed", !.completed_at = now]
            ELSE queue_items[i]]
    /\ history' = Append(history, ResetMarker(b))
    /\ statistics' = [statistics EXCEPT ![b].current_queue_length = 0]
    /\ resp' = [NoResp EXCEPT !.op = "reset_queue", !.code = 200]
    /\ UNCHANGED <<now, nextId, requests, kvVars, businesses>>

\* app.py reset_queue (POST /api/queue/reset), business_id given
ResetBusiness(b, reset_stats, isAdmin) ==
    /\ IF ~isAdmin
       THEN /\ resp' = Refused
            /\ UNCHANGED <<sqlVars, kvVars>>
       ELSE IF b \notin BusinessIds
       THEN \* the marker's business_id violates the foreign key: rolled back
            /\ resp' = Failure(500)
            /\ UNCHANGED <<sqlVars, kvVars>>
       ELSE /\ Logged < MaxHistory
            /\ queue_items' =
                 [i \in DOMAIN queue_items |->
                    IF queue_items[i].business_id = b /\ queue_items[i].status = "waiting"
                    THEN [queue_items[i] EXCEPT !.status = "completed",
                                                !.completed_at = now]
                    ELSE queue_items[i]]
            /\ history' = Append(history, ResetMarker(b))
            /\ statistics' = IF statistics[b] = NoStats THEN statistics
                             ELSE [statistics EXCEPT ![b].current_queue_length = 0]
            /\ businesses' = IF statistics[b] = NoStats THEN businesses
                             ELSE [businesses EXCEPT ![b].queue_size = 0]
            \* no item of get_all_items carries the key '_id': nothing is removed
            /\ kvStats' = [kvStats EXCEPT ![b] =
                             [total_served |-> IF reset_stats THEN 0
                                               ELSE KvTotalServed(kvStats, b),
                              avg_wait_time |-> RatZero,
                              peak_queue_length |-> 0,
                              current_queue_length |-> 0]]
            /\ resp' = [NoResp EXCEPT !.op = "reset_queue", !.code = 200]
            /\ UNCHANGED <<kvItems, kvHistory>>
    /\ UNCHANGED <<now, nextId, requests>>

\* app.py reset_queue, no business_id: "Reset entire queue"
ResetAllOn(isAdmin, fault) ==
    /\ IF ~isAdmin
       THEN /\ resp' = Refused
            /\ UNCHANGED <<sqlVars, kvVars>>
       ELSE LET kv == KvResetQueueFault(kvItems, kvStats, kvHistory, fault)
            IN /\ Logged < MaxHistory
               /\ queue_items' =
                    [i \in DOMAIN queue_items |->
                       IF queue_items[i].status = "waiting"
                       THEN [queue_items[i] EXCEPT !.status = "completed",
                                                   !.completed_at = now]
                       ELSE queue_items[i]]
               /\ businesses' = [b \in BusinessIds |->
                                   [businesses[b] EXCEPT !.queue_size = 0]]
               /\ statistics' = [b \in BusinessIds |->
                                   IF statistics[b] = NoStats THEN NoStats
                                   ELSE [statistics[b] EXCEPT
                                           !.current_queue_length = 0]]
               /\ kvItems' = kv.items
               /\ kvStats' = kv.stats
               /\ kvHistory' = kv.history
               /\ resp' = [NoResp EXCEPT !.op = "reset_queue", !.code = 200]
               /\ UNCHANGED history
    /\ UNCHANGED <<now, nextId, requests>>

ResetAll(isAdmin) == ResetAllOn(isAdmin, NoFault)

\* ------------------------------------------------------------------ reads
Waiting(b) ==
    {queue_items[i] : i \in {j \in DOMAIN queue_items :
        queue_items[j].business_id = b /\ queue_items[j].status = "waiting"}}

\* app.py business_queue: the queue_items the page shows
ListWaiting(b) ==
    LET queue_items_sql == SortItems(Waiting(b))
    IN IF queue_items_sql = <<>> THEN GetAllItems(kvItems, kvStats, b)
       ELSE queue_items_sql

NotFound == 0

\* app.py check_position, POST with phone and business_id: the positions the
\* page may show (NotFound for the error page).  .first() has no ORDER BY, so
\* any matching row may be the one found.
CheckPosition(b, phone) ==
    IF phone = "" \/ b \notin BusinessIds THEN {NotFound}
    ELSE LET matches == {q \in Waiting(b) : q.phone = phone}
             replit_items == GetAllItems(kvItems, kvStats, b)
             hits == {idx \in 1..Len(replit_items) :
                         /\ replit_items[idx].phone = phone
                         /\ replit_items[idx].status = "waiting"}
         IN IF matches # {}
            THEN {Cardinality({q \in Waiting(b) : q.timestamp < queue_item.timestamp})
                      + 1 : queue_item \in matches}
            ELSE IF hits # {}
            THEN {CHOOSE h \in hits : \A g \in hits : h <= g}
            ELSE {NotFound}

\* ------------------------------------------------------ estimated wait
\* the clock counts minutes.  int(avg * k) for an average kept as a fraction
Truncated(avg, k) == (avg.num * k) \div avg.den

SecondsPerMinute == 60
MinutesPerPerson == 5

UnknownWait == [unit |-> "unknown", amount |-> 0]

\* app.py join_queue, "Calculate estimated wait time": the wait_time string
\* of the confirmation page
JoinWaitTime(stats) ==
    IF stats.avg_wait_time.num > 0
    THEN IF stats.avg_wait_time.num < stats.avg_wait_time.den
         THEN [unit |-> "seconds",
               amount |-> Truncated(stats.avg_wait_time, SecondsPerMinute)]
         ELSE [unit |-> "minutes", amount |-> Truncated(stats.avg_wait_time, 1)]
    ELSE IF stats.current_queue_length > 0
    THEN [unit |-> "minutes",
          amount |-> stats.current_queue_length * MinutesPerPerson]
    ELSE UnknownWait

\* app.py check_position, "Get estimated wait time" (the same code after a
\* hit in the relational store and after a hit in the key-value store)
LookupWaitTime(stats, position) ==
    IF stats # NoStats /\ stats.avg_wait_time.num # 0
    THEN IF stats.avg_wait_time.num < stats.avg_wait_time.den
         THEN [unit |-> "seconds",
               amount |-> Truncated(stats.avg_wait_time, SecondsPerMinute)]
         ELSE [unit |-> "minutes",
               amount |-> Truncated(stats.avg_wait_time, position)]
    ELSE UnknownWait

\* datetime.now() moves on between requests
Tick ==
    /\ now < MaxTime
    /\ now' = now + 1
    /\ UNCHANGED <<nextId, sqlVars, kvVars, resp, requests>>

\* ------------------------------------- join_queue, one request per thread
\* Each request has its own SQLAlchemy session: what it adds and changes is
\* written to the relational store by its commit.  The handler's steps are
\* the points where it reads or writes a store shared with other requests.

\* join_queue up to the statistics update: the new entry and the incremented
\* statistics are objects of the request's session
JoinBegin(r, b, name, phone) ==
    /\ requests[r].pc = "idle"
    /\ IF b \notin BusinessIds
       THEN /\ resp' = Failure(404)
            /\ UNCHANGED <<nextId, requests>>
       ELSE IF name = "" \/ phone = ""
       THEN /\ resp' = Failure(400)
            /\ UNCHANGED <<nextId, requests>>
       ELSE /\ nextId' = nextId + 1
            /\ requests' = [requests EXCEPT ![r] =
                   [pc |-> "pending",
                    new_item |-> QueueItem(nextId + 1, b, name, phone, DefaultPriority),
                    stats |-> JoinStats(statistics[b]),
                    position |-> 0]]
            /\ UNCHANGED resp
    /\ UNCHANGED <<now, sqlVars, kvVars>>

\* join_queue: queue_manager.add_item(replit_item, queue_prefix)
JoinKvAdd(r) ==
    /\ requests[r].pc = "pending"
    /\ LET e == requests[r].new_item
           kv == AddItem(kvItems, kvStats, nextId + 1,
                         [KvItem(nextId + 1, e.business_id, e.name, e.phone,
                                 DefaultPriority) EXCEPT !.timestamp = e.timestamp],
                         e.business_id)
       IN /\ kvItems' = kv.items
          /\ kvStats' = kv.stats
    /\ nextId' = nextId + 1
    /\ requests' = [requests EXCEPT ![r].pc = "stored"]
    /\ UNCHANGED <<now, sqlVars, kvHistory, resp>>

\* join_queue: db_sql.session.commit() writes the entry, the statistics as
\* the request computed them, and the business queue size
JoinCommit(r) ==
    /\ requests[r].pc = "stored"
    /\ LET e == requests[r].new_item
           b == e.business_id
       IN /\ queue_items' = (e.id :> e) @@ queue_items
          /\ statistics' = [statistics EXCEPT ![b] = requests[r].stats]
          /\ businesses' = [businesses EXCEPT
                              ![b].queue_size = requests[r].stats.current_queue_length]
    /\ requests' = [requests EXCEPT ![r].pc = "committed"]
    /\ UNCHANGED <<now, nextId, history, kvVars, resp>>

\* join_queue after the commit: the commit expired the session's objects, so
\* stats.current_queue_length is read from the store again
JoinRespond(r) ==
    /\ requests[r].pc = "committed"
    /\ LET e == requests[r].new_item
           position == statistics[e.business_id].current_queue_length
       IN /\ requests' = [requests EXCEPT ![r].pc = "done", ![r].position = position]
          /\ \E sms \in SmsOutcomes :
                resp' = AfterSms([op |-> "join_queue", code |-> 200, id |-> e.id,
                                  position |-> position], sms)
    /\ UNCHANGED <<now, nextId, sqlVars, kvVars>>

\* ----------------------------------- add_to_queue, one request per thread
\* add_to_queue with a business_id, up to the statistics update
ApiBegin(r, b, name, phone, priority) ==
    /\ requests[r].pc = "idle"
    /\ IF name = MissingName
       THEN /\ resp' = Failure(400)
            /\ UNCHANGED <<nextId, requests>>
       ELSE IF b \notin BusinessIds
       THEN /\ resp' = Failure(404)
            /\ UNCHANGED <<nextId, requests>>
       ELSE /\ nextId' = nextId + 1
            /\ requests' = [requests EXCEPT ![r] =
                   [pc |-> "api_pending",
                    new_item |-> QueueItem(nextId + 1, b, name, phone, priority),
                    stats |-> JoinStats(statistics[b]),
                    position |-> 0]]
            /\ UNCHANGED resp
    /\ UNCHANGED <<now, sqlVars, kvVars>>

\* add_to_queue: db_sql.session.commit()
ApiCommit(r) ==
    /\ requests[r].pc = "api_pending"
    /\ LET e == requests[r].new_item
           b == e.business_id
       IN /\ queue_items' = (e.id :> e) @@ queue_items
          /\ statistics' = [statistics EXCEPT ![b] = requests[r].stats]
          /\ businesses' = [businesses EXCEPT
                              ![b].queue_size = requests[r].stats.current_queue_length]
    /\ requests' = [requests EXCEPT ![r].pc = "api_committed"]
    /\ UNCHANGED <<now, nextId, history, kvVars, resp>>

\* add_to_queue: "Send SMS confirmation if phone number is provided"; the
\* position in the message is stats.current_queue_length, read again after
\* the commit
ApiNotify(r) ==
    /\ requests[r].pc = "api_committed"
    /\ LET e == requests[r].new_item
       IN requests' = [requests EXCEPT
              ![r].pc = "api_notified",
              ![r].position = IF e.phone # ""
                              THEN statistics[e.business_id].current_queue_length
                              ELSE 0]
    /\ UNCHANGED <<now, nextId, sqlVars, kvVars, resp>>

\* add_to_queue: "Also add to Replit DB", then the 201 response
ApiKvAdd(r) ==
    /\ requests[r].pc = "api_notified"
    /\ LET e == requests[r].new_item
           kv == AddItem(kvItems, kvStats, nextId + 1,
                         [KvItem(nextId + 1, e.business_id, e.name, e.phone,
                                 e.priority) EXCEPT !.timestamp = e.timestamp],
                         e.business_id)
       IN /\ kvItems' = kv.items
          /\ kvStats' = kv.stats
          /\ resp' = [op |-> "add_to_queue", code |-> 201, id |-> e.id,
                      position |-> requests[r].position]
    /\ nextId' = nextId + 1
    /\ requests' = [requests EXCEPT ![r].pc = "done"]
    /\ UNCHANGED <<now, sqlVars, kvHistory>>

\* ------------------------------ complete_queue_item, one request per thread
\* complete_queue_item up to the statistics update: the entry as the request
\* found and changed it and the statistics as it computed them are objects of
\* the request's session
CompleteBegin(r, id) ==
    /\ requests[r].pc = "idle"
    /\ id \in DOMAIN queue_items
    /\ LET queue_item == queue_items[id]
           wait_time_minutes == now - queue_item.timestamp
       IN requests' = [requests EXCEPT ![r] =
              [pc |-> "completing",
               new_item |-> [queue_item EXCEPT !.status = "completed",
                                               !.completed_at = now],
               stats |-> CompleteStats(statistics[queue_item.business_id],
                                       wait_time_minutes),
               position |-> 0]]
    /\ UNCHANGED <<now, nextId, sqlVars, kvVars, resp>>

\* complete_queue_item: db_sql.session.commit() writes the entry, the history
\* record and the statistics as the request computed them
CompleteCommit(r) ==
    /\ requests[r].pc = "completing"
    /\ Logged < MaxHistory
    /\ LET e == requests[r].new_item
           b == e.business_id
           stats == requests[r].stats
       IN /\ queue_items' = [queue_items EXCEPT ![e.id] = e]
          /\ history' = Append(history,
                 [item_id |-> e.id, business_id |-> b, name |-> e.name,
                  wait_time |-> e.completed_at - e.timestamp,
                  timestamp |-> e.timestamp, completed_at |-> e.completed_at,
                  is_reset_marker |-> FALSE])
          /\ statistics' = [statistics EXCEPT ![b] = stats]
          /\ businesses' = IF stats = NoStats THEN businesses
                           ELSE [businesses EXCEPT ![b].queue_size =
                                    stats.current_queue_length]
    /\ requests' = [requests EXCEPT ![r].pc = "completed"]
    /\ UNCHANGED <<now, nextId, kvVars, resp>>

\* complete_queue_item after the commit: queue_manager.complete_item(item_id),
\* the notification and the response
CompleteRespond(r) ==
    /\ requests[r].pc = "completed"
    /\ LET e == requests[r].new_item
           kv == KvCompleteItem(kvItems, kvStats, kvHistory, e.id)
       IN /\ kvItems' = kv.items
          /\ kvStats' = kv.stats
          /\ kvHistory' = kv.history
          /\ \E sms \in SmsOutcomes :
                resp' = LET result == [NoResp EXCEPT !.op = "complete_item",
                                                     !.code = 200, !.id = e.id]
                        IN IF e.phone # "" THEN AfterSms(result, sms) ELSE result
    /\ requests' = [requests EXCEPT ![r].pc = "done"]
    /\ UNCHANGED <<now, nextId, sqlVars>>

\* ------------------------------------------------------- specifications
TargetBusinesses == {"cafe-central"}

\* each request to join comes from a new customer
Customer(k) == [name |-> Names[k], phone |-> Phones[k]]
FormInputs(k) == {Customer(k), [name |-> "", phone |-> Phones[k]],
                  [name |-> Names[k], phone |-> ""]}
KvInputs(k) == {Customer(k), [name |-> MissingName, phone |-> Phones[k]]}
ApiInputs(k) == KvInputs(k) \cup {[name |-> "", phone |-> Phones[k]]}
Ids == 1..(2 * MaxJoins)
ApiPriorities == {5}

\* the business flows: requests that name a business, and the admin requests
\* on the entries they create
Next ==
    \/ Tick
    \/ \E b \in TargetBusinesses \cup {UnknownBusiness}, c \in FormInputs(nextId \div 2 + 1) :
           JoinForm(b, c.name, c.phone)
    \/ \E b \in TargetBusinesses \cup {UnknownBusiness},
          c \in ApiInputs(nextId \div 2 + 1),
          p \in ApiPriorities : JoinApi(b, c.name, c.phone, p)
    \/ \E id \in Ids, isAdmin \in BOOLEAN : CompleteItem(id, isAdmin)
    \/ \E id \in Ids, isAdmin \in BOOLEAN : RemoveItem(id, isAdmin)
    \/ \E b \in TargetBusinesses \cup {UnknownBusiness}, reset_stats \in BOOLEAN,
          isAdmin \in BOOLEAN : ResetBusiness(b, reset_stats, isAdmin)
    \/ \E isAdmin \in BOOLEAN : ResetAll(isAdmin)

Spec == Init /\ [][Next]_vars

\* the legacy flows: requests without a business, on the default queue
NextKv ==
    \/ Tick
    \/ \E c \in KvInputs(nextId + 1), p \in {DefaultPriority} : JoinApi(NoBusiness, c.name, c.phone, p)
    \/ \E id \in Ids, isAdmin \in BOOLEAN :
           UpdateItem(id, "timestamp", BadTimestamp, isAdmin)
    \/ \E id \in Ids : UpdateItem(id, "status", "waiting", TRUE)
    \/ \E id \in Ids, isAdmin \in BOOLEAN : RemoveItem(id, isAdmin)
    \/ \E id \in Ids, isAdmin \in BOOLEAN : CompleteItem(id, isAdmin)
    \/ \E isAdmin \in BOOLEAN : ResetAll(isAdmin)

SpecKv == Init /\ [][NextKv]_vars

\* concurrent joins: the admin empties the seeded queue of the business, then
\* the customers' requests arrive and their steps interleave
NoneArrived == \A r \in Requests : requests[r].pc = "idle"

NextConc ==
    \/ Tick
    \/ /\ NoneArrived
       /\ history = <<>>
       /\ \E b \in TargetBusinesses : ResetBusiness(b, FALSE, TRUE)
    \/ /\ history # <<>>
       /\ \E r \in Requests, b \in TargetBusinesses :
              JoinBegin(r, b, Customer(r).name, Customer(r).phone)
    \/ \E r \in Requests : JoinKvAdd(r)
    \/ \E r \in Requests : JoinCommit(r)
    \/ \E r \in Requests : JoinRespond(r)

SpecConc == Init /\ [][NextConc]_vars

\* the notifying handlers under every outcome of the notification
SmsInputs(k) == {Customer(k), [name |-> Names[k], phone |-> ""]}

NextSms ==
    \/ Tick
    \/ \E b \in TargetBusinesses, c \in {Customer(nextId \div 2 + 1)},
          sms \in SmsOutcomes : JoinFormSms(b, c.name, c.phone, sms)
    \/ \E b \in TargetBusinesses, c \in SmsInputs(nextId \div 2 + 1),
          p \in ApiPriorities, sms \in SmsOutcomes :
              JoinApiSms(b, c.name, c.phone, p, sms)
    \/ \E id \in Ids, sms \in SmsOutcomes : CompleteItemSms(id, TRUE, sms)

SpecSms == Init /\ [][NextSms]_vars

\* API joins to a business, step by step
NextApi ==
    \/ Tick
    \/ \E r \in Requests, b \in TargetBusinesses, p \in ApiPriorities :
          \E c \in SmsInputs(r) : ApiBegin(r, b, c.name, c.phone, p)
    \/ \E r \in Requests : ApiCommit(r)
    \/ \E r \in Requests : ApiNotify(r)
    \/ \E r \in Requests : ApiKvAdd(r)

SpecApi == Init /\ [][NextApi]_vars

\* a default queue that has been in use: n customers joined, were completed
\* at once and their entries removed by the admin, in turn
ServedHistory(n) ==
    [i \in 1..n |-> [id |-> 0 - i, name |-> "Alice", wait_time |-> 0,
                     timestamp |-> 0, completed_at |-> 0, is_reset_marker |-> FALSE]]

ServedCounts == {HistoryCap - 1, HistoryCap}

InitServed ==
    /\ now = 0
    /\ nextId = 0
    /\ businesses = [b \in BusinessIds |-> [queue_size |-> SeedQueueSize(b)]]
    /\ queue_items = EmptyMap
    /\ statistics = [b \in BusinessIds |->
                        [total_served |-> 0, avg_wait_time |-> RatZero,
                         peak_queue_length |-> 0,
                         current_queue_length |-> SeedQueueSize(b)]]
    /\ history = <<>>
    /\ kvItems = EmptyMap
    /\ \E n \in ServedCounts :
          /\ kvHistory = ServedHistory(n)
          /\ kvStats = [p \in Prefixes |->
                          IF p = GlobalPrefix
                          THEN [total_served |-> n, avg_wait_time |-> RatZero,
                                peak_queue_length |-> 1, current_queue_length |-> 0]
                          ELSE NoStats]
    /\ resp = NoResp
    /\ requests = [r \in Requests |-> NoRequest]

NextServed ==
    \/ Tick
    \/ \E c \in {Customer(nextId + 1)} :
           JoinApi(NoBusiness, c.name, c.phone, DefaultPriority)
    \/ \E id \in Ids : CompleteItem(id, TRUE)
    \/ \E id \in Ids : RemoveItem(id, TRUE)
    \/ ResetAll(TRUE)

SpecServed == InitServed /\ [][NextServed]_vars

\* the next customer of the default queue, while requests to join are made
NextCustomer == {Customer(k) : k \in {nextId + 1} \cap DOMAIN Names}

\* the calls of the storage adapter that each QueueManager operation makes
AddFaults == {"set_item", "get_stats", "scan", "set_stats"}
CompleteFaults == {"get_item", "set_item", "get_history", "set_history",
                   "get_stats", "scan", "set_stats"}
RemoveFaults == {"get_item", "delete", "get_stats", "scan", "set_stats"}
ResetFaults == {"scan", "delete", "set_stats", "get_history", "set_history"}

\* the requests when one call of the remote key-value store may fail
NextFault ==
    \/ \E c \in NextCustomer, fault \in AddFaults \cup {NoFault} :
           JoinApiOn(NoBusiness, c.name, c.phone, DefaultPriority, "sent", fault)
    \/ /\ kvStats[GlobalPrefix].total_served < MaxHistory
       /\ \E id \in Ids, fault \in CompleteFaults \cup {NoFault} :
              CompleteItemOn(id, TRUE, "sent", fault)
    \/ \E id \in Ids, fault \in RemoveFaults \cup {NoFault} :
           RemoveItemOn(id, TRUE, fault)
    \/ \E fault \in ResetFaults \cup {NoFault} : ResetAllOn(TRUE, fault)

SpecFault == Init /\ [][NextFault]_vars

\* a relational store that was populated before queue_statistics existed:
\* initialize_businesses finds businesses and adds nothing, db_sql.create_all
\* creates the statistics table empty.  An entry may have been waiting then.
LegacyEntry ==
    [id |-> 1, business_id |-> "cafe-central", name |-> Names[1],
     phone |-> Phones[1], priority |-> DefaultPriority, status |-> "waiting",
     timestamp |-> 0, completed_at |-> NoTime]

InitLazy ==
    /\ now = 0
    /\ businesses = [b \in BusinessIds |-> [queue_size |-> SeedQueueSize(b)]]
    /\ statistics = [b \in BusinessIds |-> NoStats]
    /\ \/ nextId = 0 /\ queue_items = EmptyMap
       \/ nextId = 2 /\ queue_items = (1 :> LegacyEntry)
    /\ history = <<>>
    /\ kvItems = EmptyMap
    /\ kvStats = [p \in Prefixes |-> IF p = GlobalPrefix THEN ZeroStats ELSE NoStats]
    /\ kvHistory = <<>>
    /\ resp = NoResp
    /\ requests = [r \in Requests |-> NoRequest]

NextLazy ==
    \/ Tick
    \/ \E b \in TargetBusinesses, c \in {Customer(nextId \div 2 + 1)} :
           JoinForm(b, c.name, c.phone)
    \/ \E b \in TargetBusinesses, c \in {Customer(nextId \div 2 + 1)},
          p \in ApiPriorities : JoinApi(b, c.name, c.phone, p)
    \/ \E id \in Ids : CompleteItem(id, TRUE)

SpecLazy == InitLazy /\ [][NextLazy]_vars

\* a join and two completes of the first customer's entry, one thread each:
\* the admin empties the seeded queue, the first customer joins, then the
\* second customer's join (request 1) and the admin's completes (requests 2
\* and 3) arrive and their steps interleave
Joiner == 1
Completers == {2, 3}
FirstEntry == 1

NextMix ==
    \/ Tick
    \/ /\ history = <<>>
       /\ \E b \in TargetBusinesses : ResetBusiness(b, FALSE, TRUE)
    \/ /\ history # <<>>
       /\ nextId = 0
       /\ \E b \in TargetBusinesses : JoinForm(b, Customer(1).name, Customer(1).phone)
    \/ /\ nextId >= 2
       /\ \E b \in TargetBusinesses :
              JoinBegin(Joiner, b, Customer(2).name, Customer(2).phone)
    \/ \E r \in Requests : JoinKvAdd(r)
    \/ \E r \in Requests : JoinCommit(r)
    \/ \E r \in Requests : JoinRespond(r)
    \/ /\ nextId >= 2
       /\ \E r \in Completers : CompleteBegin(r, FirstEntry)
    \/ \E r \in Requests : CompleteCommit(r)
    \/ \E r \in Requests : CompleteRespond(r)

SpecMix == Init /\ [][NextMix]_vars

\* customers of two businesses, and the admin requests on their entries
NextTwo ==
    \/ Tick
    \/ \E b \in BusinessIds, c \in {Customer(nextId \div 2 + 1)} :
           JoinForm(b, c.name, c.phone)
    \/ \E b \in BusinessIds, c \in {Customer(nextId \div 2 + 1)},
          p \in ApiPriorities : JoinApi(b, c.name, c.phone, p)
    \/ \E id \in Ids : CompleteItem(id, TRUE)
    \/ \E id \in Ids : RemoveItem(id, TRUE)
    \/ \E b \in BusinessIds, reset_stats \in BOOLEAN :
           ResetBusiness(b, reset_stats, TRUE)

SpecTwo == Init /\ [][NextTwo]_vars

\* the admin requests with and without an admin session, on entries of a
\* business and of the default queue
NextAdmin ==
    \/ Tick
    \/ \E b \in TargetBusinesses, c \in {Customer(nextId \div 2 + 1)} :
           JoinForm(b, c.name, c.phone)
    \/ \E c \in NextCustomer : JoinApi(NoBusiness, c.name, c.phone, DefaultPriority)
    \/ \E id \in Ids, isAdmin \in BOOLEAN : UpdateItem(id, "status", "waiting", isAdmin)
    \/ \E id \in Ids, isAdmin \in BOOLEAN : RemoveItem(id, isAdmin)
    \/ \E id \in Ids, isAdmin \in BOOLEAN : CompleteItem(id, isAdmin)
    \/ \E b \in TargetBusinesses, reset_stats \in BOOLEAN, isAdmin \in BOOLEAN :
           ResetBusiness(b, reset_stats, isAdmin)
    \/ \E isAdmin \in BOOLEAN : ResetAll(isAdmin)

SpecAdmin == Init /\ [][NextAdmin]_vars

\* staff work through the queue page of a business: the admin completes the
\* entry at the head of the list the page shows
CompleteFirst(b) ==
    /\ ListWaiting(b) # <<>>
    /\ CompleteItem(Head(ListWaiting(b)).id, TRUE)

CompleteFirsts == \E b \in TargetBusinesses : CompleteFirst(b)

\* customers join while they can, the admin may first empty the seeded queue,
\* and staff keep completing the head of the list
NextDrain ==
    \/ Tick
    \/ /\ nextId = 0
       /\ history = <<>>
       /\ \E b \in TargetBusinesses, reset_stats \in BOOLEAN :
              ResetBusiness(b, reset_stats, TRUE)
    \/ \E b \in TargetBusinesses, c \in {Customer(nextId \div 2 + 1)} :
           JoinForm(b, c.name, c.phone)
    \/ \E b \in TargetBusinesses, c \in {Customer(nextId \div 2 + 1)},
          p \in ApiPriorities : JoinApi(b, c.name, c.phone, p)
    \/ CompleteFirsts

\* every complete request is handled: one that stays possible is carried out
SpecDrain == Init /\ [][NextDrain]_vars /\ WF_vars(CompleteFirsts)

\* ----------------------------------------------------------------- claims
RECURSIVE SumWaits(_)
SumWaits(h) == IF h = <<>> THEN 0 ELSE Head(h).wait_time + SumWaits(Tail(h))

Completions(b) ==
    SelectSeq(history, LAMBDA r : r.business_id = b /\ ~r.is_reset_marker)

\* 1 + the number of waiting entries that sort strictly before e
Rank(b, e) == 1 + Cardinality({q \in Waiting(b) : SortKeyLess(q, e)})

\* what identifies a customer's entry in either store
Entry(x) == [name |-> x.name, phone |-> x.phone, priority |-> x.priority,
             timestamp |-> x.timestamp]

Range(f) == {f[i] : i \in DOMAIN f}

\* C1: for every business, the statistics field current_queue_length equals
\* the number of entries of that business whose status is waiting.
C1_LengthIsWaitingCount ==
    \A b \in BusinessIds :
        statistics[b] # NoStats =>
            statistics[b].current_queue_length = Cardinality(Waiting(b))

\* C2: list_waiting(b) holds exactly the waiting entries of b, each once,
\* ordered by priority descending, then creation timestamp ascending.
C2_ListWaitingExact ==
    \A b \in BusinessIds :
        LET l == ListWaiting(b)
        IN /\ {Entry(x) : x \in Range(l)} = {Entry(q) : q \in Waiting(b)}
           /\ Len(l) = Cardinality(Waiting(b))
           /\ \A i, j \in 1..Len(l) : i < j => ~SortKeyLess(l[j], l[i])

\* C3: for every waiting entry e of a business, position_of(business, e) is
\* 1 + the number of waiting entries that sort strictly before e.
C3_PositionIsRank ==
    \A b \in BusinessIds : \A e \in Waiting(b) :
        CheckPosition(b, e.phone) = {Rank(b, e)}

\* C4: the position join reports for the new entry is that entry's rank in
\* list_waiting of its business.
C4_JoinReportsRank ==
    (resp.op \in {"join_queue", "add_to_queue"} /\ resp.position # 0) =>
        /\ resp.id \in DOMAIN queue_items
        /\ resp.position = Rank(queue_items[resp.id].business_id, queue_items[resp.id])

\* C5: complete(entry_id) on an entry that is already completed fails with
\* NotFound and changes nothing.
C5_SecondCompleteFails ==
    [][\A id \in Ids :
          (/\ id \in DOMAIN queue_items
           /\ queue_items[id].status = "completed"
           /\ CompleteItem(id, TRUE))
          => (resp'.code = 404 /\ UNCHANGED <<sqlVars, kvVars>>)]_vars

\* C6: after N >= 1 completions on a business, avg_wait_time * total_served
\* equals the sum of the wait times of all served entries.
C6_AverageIsMean ==
    \A b \in BusinessIds :
        (statistics[b] # NoStats /\ statistics[b].total_served >= 1) =>
            statistics[b].avg_wait_time.num * statistics[b].total_served
                = SumWaits(Completions(b)) * statistics[b].avg_wait_time.den

ActiveCount(items) ==
    Cardinality({i \in DOMAIN items :
        items[i].prefix = GlobalPrefix /\ items[i].status # "completed"})

\* C8: every mutating operation applies the entry state change, the
\* statistics delta and the history append all together, or none of them.
C8_MutationsAtomic ==
    [][/\ \A id \in Ids :
            (CompleteItem(id, TRUE) /\ id \in DOMAIN queue_items) =>
                \/ /\ queue_items'[id].status = "completed"
                   /\ Len(history') = Len(history) + 1
                   /\ statistics'[queue_items[id].business_id].total_served =
                          statistics[queue_items[id].business_id].total_served + 1
                \/ UNCHANGED sqlVars
       /\ \A id \in Ids :
            (CompleteItem(id, TRUE) /\ KvFound(kvItems, id)) =>
                \/ /\ kvItems'[id].status = "completed"
                   /\ Len(kvHistory') = Len(kvHistory) + 1
                   /\ kvStats'[GlobalPrefix].total_served =
                          kvStats[GlobalPrefix].total_served + 1
                \/ UNCHANGED kvVars
       /\ \A id \in Ids :
            (RemoveItem(id, TRUE) /\ KvFound(kvItems, id)) =>
                /\ id \notin DOMAIN kvItems'
                /\ kvStats'[GlobalPrefix].current_queue_length = ActiveCount(kvItems')
       /\ (\E c \in KvInputs(nextId + 1) :
              JoinApi(NoBusiness, c.name, c.phone, DefaultPriority)) =>
                \/ /\ DOMAIN kvItems' # DOMAIN kvItems
                   /\ kvStats'[GlobalPrefix].current_queue_length = ActiveCount(kvItems')
                \/ UNCHANGED kvVars
       /\ ResetAll(TRUE) =>
                /\ ActiveCount(kvItems') = 0
                /\ kvStats'[GlobalPrefix].current_queue_length = 0
                /\ Len(kvHistory') = Len(kvHistory) + 1
      ]_vars

\* C9: after reset(business, keep_totals=false) the statistics of the business
\* have current_queue_length = 0 and total_served = 0, and peak_queue_length
\* is what it was before the reset.
C9_ResetZeroesTotals ==
    [][\A b \in BusinessIds :
          ResetBusiness(b, TRUE, TRUE) =>
              /\ statistics'[b].current_queue_length = 0
              /\ statistics'[b].total_served = 0
              /\ statistics'[b].peak_queue_length = statistics[b].peak_queue_length
      ]_vars

IsPrefix(h, g) == Len(h) <= Len(g) /\ SubSeq(g, 1, Len(h)) = h

\* C10: each reset appends exactly one record to the history log, a reset
\* marker (for a business reset, in the relational log and naming the
\* business; for a reset of everything, in the key-value log), and no record
\* for any entry that was waiting.
C10_ResetAppendsOneMarker ==
    [][/\ \A b \in BusinessIds :
            (\E reset_stats \in BOOLEAN : ResetBusiness(b, reset_stats, TRUE)) =>
                /\ Len(history') = Len(history) + 1
                /\ IsPrefix(history, history')
                /\ history'[Len(history')].is_reset_marker
                /\ history'[Len(history')].business_id = b
                /\ kvHistory' = kvHistory
       /\ ResetAll(TRUE) =>
                /\ Len(kvHistory') = Len(kvHistory) + 1
                /\ IsPrefix(kvHistory, kvHistory')
                /\ kvHistory'[Len(kvHistory')].is_reset_marker
                /\ history' = history
      ]_vars

\* a business reset that found an entry waiting: the entry is completed at
\* the marker's time and has no history record of its own
C10_Witness ==
    /\ resp.op = "reset_queue"
    /\ resp.code = 200
    /\ history # <<>>
    /\ history[Len(history)].is_reset_marker
    /\ \E i \in DOMAIN queue_items :
          /\ queue_items[i].status = "completed"
          /\ queue_items[i].completed_at = history[Len(history)].completed_at
          /\ \A k \in 1..Len(history) : history[k].item_id # i

AllResponded == \A r \in Requests : requests[r].pc = "done"

\* C7: when the requests to join an empty business have all finished, however
\* their steps interleaved, their positions are distinct and are 1..N, and
\* current_queue_length is N.
C7_ConcurrentJoinsDistinct ==
    AllResponded =>
        /\ \A r1, r2 \in Requests :
               r1 # r2 => requests[r1].position # requests[r2].position
        /\ {requests[r].position : r \in Requests} = 1..MaxRequests
        /\ statistics["cafe-central"].current_queue_length = MaxRequests

\* C11: after reset(business) returns, list_waiting(business) is empty and
\* no read path reports an entry of the business that was waiting before the
\* reset as waiting.
C11_ResetEmptiesWaitingList ==
    [][\A b \in BusinessIds :
          (\E reset_stats \in BOOLEAN : ResetBusiness(b, reset_stats, TRUE)) =>
              /\ ListWaiting(b)' = <<>>
              /\ \A e \in Waiting(b) : CheckPosition(b, e.phone)' = {NotFound}
      ]_vars

Peak(st) == IF st = NoStats THEN 0 ELSE st.peak_queue_length

\* a step of an administrative reset
IsReset ==
    \/ \E b \in BusinessIds, reset_stats \in BOOLEAN : ResetBusiness(b, reset_stats, TRUE)
    \/ ResetAll(TRUE)

\* C12: peak_queue_length never decreases over join, complete and remove
\* operations; only an administrative reset can lower it.
C12_PeakNeverDecreases ==
    [][IsReset \/ /\ \A b \in BusinessIds :
                        Peak(statistics'[b]) >= Peak(statistics[b])
                  /\ \A p \in Prefixes : Peak(kvStats'[p]) >= Peak(kvStats[p])
      ]_vars

\* the fields of a statistics record that a removal leaves alone
Totals(st) == [total_served |-> st.total_served, avg_wait_time |-> st.avg_wait_time,
               peak_queue_length |-> st.peak_queue_length]

\* C13: remove(entry_id) on a waiting entry takes it out of the waiting list
\* and lowers current_queue_length by one (not below 0); total_served,
\* avg_wait_time, peak_queue_length and the history log stay as they were.
C13_RemoveDecrementsOnly ==
    [][\A id \in Ids :
          /\ (/\ RemoveItem(id, TRUE)
              /\ id \in DOMAIN queue_items
              /\ queue_items[id].status = "waiting") =>
                 LET b == queue_items[id].business_id
                 IN /\ \A q \in Waiting(b)' : q.id # id
                    /\ statistics'[b].current_queue_length =
                           Max(0, statistics[b].current_queue_length - 1)
                    /\ Totals(statistics'[b]) = Totals(statistics[b])
                    /\ history' = history
          /\ (/\ RemoveItem(id, TRUE)
              /\ id \in DOMAIN kvItems
              /\ kvItems[id].prefix = GlobalPrefix
              /\ kvItems[id].status = "waiting") =>
                    /\ id \notin DOMAIN kvItems'
                    /\ kvStats'[GlobalPrefix].current_queue_length =
                           Max(0, kvStats[GlobalPrefix].current_queue_length - 1)
                    /\ Totals(kvStats'[GlobalPrefix]) = Totals(kvStats[GlobalPrefix])
                    /\ kvHistory' = kvHistory
      ]_vars

\* what of an entry is fixed once it is completed
Frozen(x) == [status |-> x.status, name |-> x.name, priority |-> x.priority,
              timestamp |-> x.timestamp, completed_at |-> x.completed_at]

\* C14: a completed entry never changes again: no later operation changes its
\* status, name, priority, creation timestamp or completion timestamp, and it
\* never becomes waiting again.
C14_CompletedIsFinal ==
    [][/\ \A id \in DOMAIN queue_items :
            queue_items[id].status = "completed" =>
                (id \in DOMAIN queue_items' =>
                    Frozen(queue_items'[id]) = Frozen(queue_items[id]))
       /\ \A id \in DOMAIN kvItems :
            kvItems[id].status = "completed" =>
                (id \in DOMAIN kvItems' =>
                    Frozen(kvItems'[id]) = Frozen(kvItems[id]))
      ]_vars

\* C15: join with an empty name is rejected with a validation error on the
\* form entry point and on the API entry point, and changes no state.
C15_EmptyNameRejected ==
    [][\A phone \in Range(Phones) :
          /\ \A b \in BusinessIds :
                JoinForm(b, "", phone) =>
                    (resp'.code = 400 /\ UNCHANGED <<sqlVars, kvVars>>)
          /\ \A b \in BusinessIds \cup {NoBusiness}, p \in ApiPriorities \cup {DefaultPriority} :
                JoinApi(b, "", phone, p) =>
                    (resp'.code = 400 /\ UNCHANGED <<sqlVars, kvVars>>)
      ]_vars

\* an identifier that no store holds
Unknown(id) == id \notin DOMAIN queue_items /\ id \notin DOMAIN kvItems

\* C16: join on a business that does not exist, and complete or remove with
\* an identifier that no store holds, report a not-found failure and leave
\* every entry, every statistics record and the history log unchanged.
C16_NotFoundChangesNothing ==
    [][/\ \A c \in FormInputs(nextId \div 2 + 1) :
            JoinForm(UnknownBusiness, c.name, c.phone) =>
                (resp' = Failure(404) /\ UNCHANGED <<sqlVars, kvVars>>)
       /\ \A c \in ApiInputs(nextId \div 2 + 1), p \in ApiPriorities :
            (c.name # MissingName /\ JoinApi(UnknownBusiness, c.name, c.phone, p)) =>
                (resp' = Failure(404) /\ UNCHANGED <<sqlVars, kvVars>>)
       /\ \A id \in Ids :
            Unknown(id) =>
                /\ CompleteItem(id, TRUE) =>
                       (resp' = Failure(404) /\ UNCHANGED <<sqlVars, kvVars>>)
                /\ RemoveItem(id, TRUE) =>
                       (resp' = Failure(404) /\ UNCHANGED <<sqlVars, kvVars>>)
      ]_vars

\* a request was answered "not found" while an entry was waiting and an
\* identifier was still unknown
C16_Witness ==
    /\ resp = Failure(404)
    /\ Waiting("cafe-central") # {}
    /\ \E id \in Ids : Unknown(id)

\* C17: whether the notification is sent, fails or raises, join and complete
\* return the same result and leave the same queue, statistics and history
\* state: a step taken under one outcome is the step taken under every other.
C17_NotificationOutcomeIgnored ==
    [][\A sms \in SmsOutcomes :
          /\ \A b \in TargetBusinesses, c \in {Customer(nextId \div 2 + 1)} :
                JoinFormSms(b, c.name, c.phone, sms) =>
                    \A other \in SmsOutcomes : JoinFormSms(b, c.name, c.phone, other)
          /\ \A b \in TargetBusinesses, c \in SmsInputs(nextId \div 2 + 1),
                p \in ApiPriorities :
                JoinApiSms(b, c.name, c.phone, p, sms) =>
                    \A other \in SmsOutcomes : JoinApiSms(b, c.name, c.phone, p, other)
          /\ \A id \in Ids :
                CompleteItemSms(id, TRUE, sms) =>
                    \A other \in SmsOutcomes : CompleteItemSms(id, TRUE, other)
      ]_vars

\* an entry with a phone number was completed at a later clock reading than
\* it joined: both handlers have sent their notification
C17_Witness ==
    /\ resp.op = "complete_item"
    /\ resp.code = 200
    /\ resp.id \in DOMAIN queue_items
    /\ queue_items[resp.id].phone # ""
    /\ queue_items[resp.id].status = "completed"
    /\ queue_items[resp.id].completed_at > queue_items[resp.id].timestamp

\* the notification of request r has been dispatched
Notified(r) ==
    /\ requests[r].pc \in {"api_notified", "done"}
    /\ requests[r].new_item.phone # ""

\* C18: the notification is dispatched only after every state write of the
\* mutation has been committed: once a request has sent its notification,
\* none of its steps writes queue state in any store.
C18_NoWriteAfterNotification ==
    [][\A r \in Requests :
          (Notified(r) /\ requests'[r] # requests[r]) =>
              UNCHANGED <<sqlVars, kvVars>>
      ]_vars

IsSuffix(h, g) == Len(h) <= Len(g) /\ SubSeq(g, Len(g) - Len(h) + 1, Len(g)) = h

\* C19: the key-value history log never holds more than its retention cap of
\* 100 records after a complete or a reset, and what it keeps are the most
\* recent records: the log before the step, minus its oldest records, then
\* the new record.
C19_HistoryWithinCap ==
    [][kvHistory' # kvHistory =>
          /\ Len(kvHistory') <= HistoryCap
          /\ kvHistory' # <<>>
          /\ IsSuffix(SubSeq(kvHistory', 1, Len(kvHistory') - 1), kvHistory)
      ]_vars

\* when the event a history record stands for happened: a completion at
\* completed_at, a reset at the marker's timestamp
EventTime(rec) == IF rec.is_reset_marker THEN rec.timestamp ELSE rec.completed_at

Limits == (1..MaxHistory) \cup {HistoryLimit}

\* C20: recent(limit) returns at most limit records, most recent event
\* first, for completion records and reset markers alike: a reset that
\* happened after a completion is listed before it.
C20_RecentIsNewestFirst ==
    \A limit \in Limits :
        LET recent == GetHistory(kvHistory, limit)
        IN /\ Len(recent) <= limit
           /\ \A i, j \in 1..Len(recent) :
                  i < j => EventTime(recent[i]) >= EventTime(recent[j])

Served(st) == IF st = NoStats THEN 0 ELSE st.total_served

\* C21: total_served of a business never decreases under join, complete and
\* remove; a reset of the business sets it to 0 when the caller opted in to
\* resetting totals and leaves it unchanged when the caller did not.
C21_TotalServedMonotonic ==
    [][/\ IsReset \/ \A b \in BusinessIds :
                        /\ Served(statistics'[b]) >= Served(statistics[b])
                        /\ Served(kvStats'[b]) >= Served(kvStats[b])
       /\ \A b \in BusinessIds, reset_stats \in BOOLEAN :
             ResetBusiness(b, reset_stats, TRUE) =>
                 /\ Served(statistics'[b]) =
                        IF reset_stats THEN 0 ELSE Served(statistics[b])
                 /\ Served(kvStats'[b]) =
                        IF reset_stats THEN 0 ELSE Served(kvStats[b])
      ]_vars

\* the operation reported an error and nothing of it remains applied
FailedCleanly == resp'.op = "error" /\ UNCHANGED <<sqlVars, kvVars>>

\* C22: when a call of the storage adapter fails during a join, complete,
\* remove or reset, the operation reports an error to its caller and no part
\* of the mutation remains applied; it never returns success.
C22_StorageFailureSurfaces ==
    [][/\ \A c \in NextCustomer, fault \in AddFaults :
            JoinApiOn(NoBusiness, c.name, c.phone, DefaultPriority, "sent", fault)
                => FailedCleanly
       /\ \A id \in Ids, fault \in CompleteFaults :
            ((KvFound(kvItems, id) \/ id \in DOMAIN queue_items)
                /\ CompleteItemOn(id, TRUE, "sent", fault)) => FailedCleanly
       /\ \A id \in Ids, fault \in RemoveFaults :
            (KvFound(kvItems, id) /\ RemoveItemOn(id, TRUE, fault)) => FailedCleanly
       /\ \A fault \in ResetFaults : ResetAllOn(TRUE, fault) => FailedCleanly
      ]_vars

\* a record created with all four fields zero, after the delta of a join
FirstJoinStats == [ZeroStats EXCEPT !.peak_queue_length = 1, !.current_queue_length = 1]

\* ... and after the delta of a completion
FirstCompleteStats(wait_time) ==
    [ZeroStats EXCEPT !.total_served = 1, !.avg_wait_time = Rat(wait_time, 1)]

HighestAndLatest(e) ==
    \A q \in Waiting(e.business_id) \ {e} :
        /\ q.priority <= e.priority
        /\ q.priority = e.priority => q.timestamp < e.timestamp

\* C24: for a freshly joined entry with the highest priority and the latest
\* timestamp among entries of equal priority, the entry's position (the one
\* the join reports and the one the position lookup finds) equals the
\* business's current_queue_length.
C24_FreshPositionIsLength ==
    (/\ resp.op \in {"join_queue", "add_to_queue"}
     /\ resp.id \in DOMAIN queue_items
     /\ queue_items[resp.id].status = "waiting"
     /\ HighestAndLatest(queue_items[resp.id])) =>
        LET e == queue_items[resp.id]
            length == statistics[e.business_id].current_queue_length
        IN /\ resp.position # 0 => resp.position = length
           /\ CheckPosition(e.business_id, e.phone) = {length}

Done(r) == requests[r].pc = "done"
Idle(r) == requests[r].pc = "idle"

\* the statistics of the business when the concurrent requests arrive: after
\* the reset and the first customer's join
StatsBefore == JoinStats(ZeroStats)

\* C25: concurrent mutations on one business are serialized.  When a join and
\* a complete have interleaved, the entries, statistics and history are those
\* of one of the two serial orders; when two completes of one waiting entry
\* have interleaved, total_served has risen by exactly 1 and exactly one
\* history record was appended.
C25_ConcurrentMutationsSerialized ==
    LET b == "cafe-central"
    IN /\ \A c \in Completers :
            (Done(Joiner) /\ Done(c) /\ \A o \in Completers \ {c} : Idle(o)) =>
                LET e == requests[c].new_item
                    wait_time == e.completed_at - e.timestamp
                IN /\ statistics[b] \in
                          {CompleteStats(JoinStats(StatsBefore), wait_time),
                           JoinStats(CompleteStats(StatsBefore, wait_time))}
                   /\ Len(Completions(b)) = 1
                   /\ queue_items[FirstEntry].status = "completed"
                   /\ queue_items[requests[Joiner].new_item.id].status = "waiting"
       /\ ((\A c \in Completers : Done(c)) /\ Idle(Joiner)) =>
                /\ statistics[b].total_served = StatsBefore.total_served + 1
                /\ Len(Completions(b)) = 1

\* what the two stores hold for a queue: b a business, or the default queue
Scope(b) ==
    [waiting |-> IF b \in BusinessIds THEN Waiting(b) ELSE {},
     statistics |-> IF b \in BusinessIds THEN statistics[b] ELSE NoStats,
     history |-> SelectSeq(history, LAMBDA rec : rec.business_id = b),
     kvItems |-> {kvItems[i] : i \in {j \in DOMAIN kvItems : kvItems[j].prefix = b}},
     kvStats |-> kvStats[b],
     kvHistory |-> IF b = GlobalPrefix THEN kvHistory ELSE <<>>]

OthersUnchanged(a) == \A b \in Prefixes \ {a} : Scope(b)' = Scope(b)

\* C26: a join, complete, remove or business reset for business A leaves the
\* waiting entries, the statistics record and the history records of every
\* other business (and of the default queue) unchanged, in both stores.
C26_ScopedToOneBusiness ==
    [][/\ \A a \in BusinessIds, c \in {Customer(nextId \div 2 + 1)} :
            \A p \in ApiPriorities :
                (JoinForm(a, c.name, c.phone) \/ JoinApi(a, c.name, c.phone, p))
                    => OthersUnchanged(a)
       /\ \A id \in Ids :
            (id \in DOMAIN queue_items /\ (CompleteItem(id, TRUE) \/ RemoveItem(id, TRUE)))
                => OthersUnchanged(queue_items[id].business_id)
       /\ \A a \in BusinessIds, reset_stats \in BOOLEAN :
            ResetBusiness(a, reset_stats, TRUE) => OthersUnchanged(a)
      ]_vars

\* one business was reset while both had an entry waiting, and the other
\* business's entry is still waiting
C26_Witness ==
    /\ resp.op = "reset_queue"
    /\ \E a, b \in BusinessIds :
          /\ a # b
          /\ Waiting(b) # {}
          /\ \E i \in DOMAIN queue_items :
                /\ queue_items[i].business_id = a
                /\ queue_items[i].status = "completed"
                /\ history # <<>>
                /\ history[Len(history)].is_reset_marker
                /\ history[Len(history)].business_id = a
                /\ queue_items[i].completed_at = history[Len(history)].completed_at

\* C27: a successful complete of a waiting entry of a business that has a
\* statistics record raises total_served by exactly 1, lowers
\* current_queue_length by 1 (not below 0), appends exactly one non-reset
\* history record with the entry's identifier and the wait time completed_at
\* minus created_at, and leaves peak_queue_length unchanged.
C27_CompleteDelta ==
    [][\A id \in Ids :
          (/\ id \in DOMAIN queue_items
           /\ queue_items[id].status = "waiting"
           /\ statistics[queue_items[id].business_id] # NoStats
           /\ CompleteItem(id, TRUE)) =>
              LET b == queue_items[id].business_id
                  last == history'[Len(history')]
              IN /\ resp'.code = 200
                 /\ queue_items'[id].status = "completed"
                 /\ statistics'[b].total_served = statistics[b].total_served + 1
                 /\ statistics'[b].current_queue_length =
                        Max(0, statistics[b].current_queue_length - 1)
                 /\ statistics'[b].peak_queue_length = statistics[b].peak_queue_length
                 /\ Len(history') = Len(history) + 1
                 /\ IsPrefix(history, history')
                 /\ ~last.is_reset_marker
                 /\ last.item_id = id
                 /\ last.business_id = b
                 /\ last.wait_time =
                        queue_items'[id].completed_at - queue_items[id].timestamp
      ]_vars

\* two waiting entries were completed, the second while current_queue_length
\* was already 0, and one of them had waited
C27_Witness ==
    /\ resp.op = "complete_item"
    /\ statistics["cafe-central"] # NoStats
    /\ statistics["cafe-central"].total_served = 2
    /\ statistics["cafe-central"].current_queue_length = 0
    /\ statistics["cafe-central"].peak_queue_length = 1
    /\ Len(history) = 2
    /\ history[1].item_id # history[2].item_id
    /\ \E k \in 1..2 : history[k].wait_time > 0

\* the entries for which a complete has succeeded
CompletedByRequest(b) ==
    {queue_items[i] : i \in {j \in DOMAIN queue_items :
        /\ queue_items[j].business_id = b
        /\ queue_items[j].status = "completed"
        /\ \E k \in DOMAIN history :
              history[k].item_id = j /\ ~history[k].is_reset_marker}}

\* C28: once complete(entry) has succeeded, no waiting-list read of the
\* business returns that customer's entry: neither the business queue page's
\* list (with its fallback to the key-value store) nor the position lookup
\* by phone reports it as waiting.
C28_CompletedNeverListed ==
    \A b \in BusinessIds : \A e \in CompletedByRequest(b) :
        /\ \A x \in Range(ListWaiting(b)) : Entry(x) # Entry(e)
        /\ CheckPosition(b, e.phone) = {NotFound}

\* the waiting customers of a business as the key-value store records them
KvWaiting(b) ==
    {kvItems[i] : i \in {j \in DOMAIN kvItems :
        kvItems[j].prefix = b /\ kvItems[j].status = "waiting"}}

\* C29: the two stores stay in lock-step: the waiting customers of a business
\* recorded in the key-value store are those recorded in the relational
\* store, and the identifier a join returns identifies the same entry in both.
C29_StoresInLockStep ==
    /\ \A b \in BusinessIds :
          {Entry(x) : x \in KvWaiting(b)} = {Entry(q) : q \in Waiting(b)}
    /\ (resp.op \in {"join_queue", "add_to_queue"} /\ resp.id \in DOMAIN queue_items) =>
          /\ resp.id \in DOMAIN kvItems
          /\ Entry(kvItems[resp.id]) = Entry(queue_items[resp.id])

\* C30: in the relational store, for every business that has a statistics
\* record, the business's cached queue_size equals the record's
\* current_queue_length, in every state reached by join, complete and reset
\* from the provisioned initial state.
C30_QueueSizeIsLength ==
    \A b \in BusinessIds :
        statistics[b] # NoStats =>
            businesses[b].queue_size = statistics[b].current_queue_length

\* after a reset, two joins and a completion the cached size and the length
\* are both 1, no longer the provisioned value
C30_Witness ==
    /\ resp.op = "complete_item"
    /\ resp.code = 200
    /\ \E k \in DOMAIN history : history[k].is_reset_marker
    /\ statistics["cafe-central"].total_served = 1
    /\ statistics["cafe-central"].peak_queue_length = 2
    /\ statistics["cafe-central"].current_queue_length = 1
    /\ businesses["cafe-central"].queue_size = 1

\* the entries added with add_item under a prefix and not completed
KvActive(prefix) ==
    {kvItems[i] : i \in {j \in DOMAIN kvItems :
        kvItems[j].prefix = prefix /\ kvItems[j].status # "completed"}}

\* C31: get_all_items for a business prefix returns only the entries added
\* under that prefix that are not completed, never the statistics record;
\* after a join that added the k-th entry under the prefix it returns exactly
\* k items and current_queue_length is k.
C31_ScanReturnsOnlyEntries ==
    /\ \A b \in BusinessIds :
          LET l == GetAllItems(kvItems, kvStats, b)
          IN /\ Range(l) \subseteq KvActive(b)
             /\ Len(l) = Cardinality(KvActive(b))
    /\ (/\ resp.op \in {"join_queue", "add_to_queue"}
        /\ resp.id \in DOMAIN queue_items) =>
          LET b == queue_items[resp.id].business_id
          IN kvStats[b].current_queue_length = Cardinality(KvActive(b))

\* avg * k, in whole units of the estimate w
InUnitOf(w, avg, k) ==
    Truncated(avg, IF w.unit = "seconds" THEN k * SecondsPerMinute ELSE k)

\* C32: the wait a position lookup reports is avg_wait_time times the
\* requester's position whenever avg_wait_time > 0, averages below one minute
\* included, and 5 minutes per waiting person when there is no average yet; a
\* fresh join reports the average itself when it is > 0 and 5 minutes times
\* current_queue_length otherwise.
C32_EstimatedWait ==
    /\ \A b \in BusinessIds : \A e \in Waiting(b) \cup KvWaiting(b) :
          \A position \in CheckPosition(b, e.phone) \ {NotFound} :
              LET w == LookupWaitTime(statistics[b], position)
                  avg == statistics[b].avg_wait_time
              IN IF avg.num > 0
                 THEN w.unit # "unknown" /\ w.amount = InUnitOf(w, avg, position)
                 ELSE /\ w.unit = "minutes"
                      /\ w.amount \in
                           {MinutesPerPerson * position,
                            MinutesPerPerson * statistics[b].current_queue_length}
    /\ (resp.op = "join_queue" /\ resp.id \in DOMAIN queue_items) =>
          LET stats == statistics[queue_items[resp.id].business_id]
              w == JoinWaitTime(stats)
          IN IF stats.avg_wait_time.num > 0
             THEN w.unit # "unknown" /\ w.amount = InUnitOf(w, stats.avg_wait_time, 1)
             ELSE /\ w.unit = "minutes"
                  /\ w.amount = MinutesPerPerson * stats.current_queue_length

\* the entry the identifier names is stored with status completed
IsCompleted(id) ==
    \/ id \in DOMAIN queue_items /\ queue_items[id].status = "completed"
    \/ id \in DOMAIN kvItems /\ kvItems[id].status = "completed"

\* C33: remove of an entry that is already completed fails with a not-found
\* response and changes nothing: the completed entry stays stored and the
\* statistics and the history are unchanged.
C33_RemoveCompletedNotFound ==
    [][\A id \in Ids :
          (IsCompleted(id) /\ RemoveItem(id, TRUE)) =>
              (resp' = Failure(404) /\ UNCHANGED <<sqlVars, kvVars>>)
      ]_vars

\* C34: in every reachable state, the provisioned initial state included,
\* each statistics record satisfies 0 <= current_queue_length <=
\* peak_queue_length.
C34_LengthWithinPeak ==
    /\ \A b \in DOMAIN statistics :
          statistics[b] # NoStats =>
              /\ 0 <= statistics[b].current_queue_length
              /\ statistics[b].current_queue_length <= Peak(statistics[b])
    /\ \A q \in DOMAIN kvStats :
          kvStats[q] # NoStats =>
              /\ 0 <= kvStats[q].current_queue_length
              /\ kvStats[q].current_queue_length <= Peak(kvStats[q])

\* no reset of the business has been logged
NeverReset(b) ==
    \A k \in DOMAIN history :
        ~(history[k].business_id = b /\ history[k].is_reset_marker)

\* the completed entries of the business that a complete request completed
CompletedIndividually(b) ==
    {i \in DOMAIN queue_items :
        /\ queue_items[i].business_id = b
        /\ queue_items[i].status = "completed"
        /\ \E k \in DOMAIN history :
               history[k].item_id = i /\ ~history[k].is_reset_marker}

\* C35: in the relational store, for every business that has a statistics
\* record and has never had its totals reset, total_served equals the number
\* of non-reset history records of the business, and that number equals the
\* number of distinct completed entries of the business that were completed
\* individually.
C35_ServedCountsCompletions ==
    \A b \in BusinessIds :
        (statistics[b] # NoStats /\ NeverReset(b)) =>
            /\ statistics[b].total_served = Len(Completions(b))
            /\ Len(Completions(b)) = Cardinality(CompletedIndividually(b))

\* C36: without an admin session the update, remove, complete and reset
\* requests are refused with 403 and leave every entry, statistics record and
\* history record of both stores unchanged.
C36_AdminOnly ==
    [][/\ \A id \in Ids :
            /\ UpdateItem(id, "status", "waiting", FALSE) =>
                   (resp' = Failure(403) /\ UNCHANGED <<sqlVars, kvVars>>)
            /\ RemoveItem(id, FALSE) =>
                   (resp' = Failure(403) /\ UNCHANGED <<sqlVars, kvVars>>)
            /\ CompleteItem(id, FALSE) =>
                   (resp' = Failure(403) /\ UNCHANGED <<sqlVars, kvVars>>)
       /\ \A b \in TargetBusinesses, reset_stats \in BOOLEAN :
            ResetBusiness(b, reset_stats, FALSE) =>
                (resp' = Failure(403) /\ UNCHANGED <<sqlVars, kvVars>>)
       /\ ResetAll(FALSE) =>
            (resp' = Failure(403) /\ UNCHANGED <<sqlVars, kvVars>>)
      ]_vars

\* a request was refused while both stores held an entry it could have
\* changed, statistics to reset and a completion on record
C36_Witness ==
    /\ resp = Failure(403)
    /\ Waiting("cafe-central") # {}
    /\ \E id \in Ids : KvFound(kvItems, id) /\ kvItems[id].status = "waiting"
    /\ history # <<>>
    /\ kvStats[GlobalPrefix].current_queue_length > 0

\* the queue page of the business is empty and its counter is 0
Drained(b) ==
    /\ ListWaiting(b) = <<>>
    /\ statistics[b] # NoStats
    /\ statistics[b].current_queue_length = 0

\* C37: when joins to a business stop and staff keep completing the first
\* entry of list_waiting, the business eventually reaches a state where
\* list_waiting is empty and current_queue_length is 0, and stays there until
\* the next join (the model has finitely many joins: from the last one on it
\* stays there for good).
C37_QueueDrains ==
    \A b \in TargetBusinesses : <>[]Drained(b)
====
